---- MODULE Spec2Model ----
(***************************************************************************)
(* Paper-trading ledger (trading/paper_trading.py, VirtualPortfolio) and   *)
(* the synchronous signal processor (trading/signal_processor.py) that     *)
(* drives it.                                                              *)
(*                                                                         *)
(* Python floats are modelled as exact rationals <<numerator, denominator>>*)
(* in lowest terms with a positive denominator: every +, -, *, / and       *)
(* comparison of the source is the same operation on rationals.  Float     *)
(* rounding is not modelled.  Timestamps, trade ids and the signal_data    *)
(* copy stored in a trade record are omitted: no operation reads them.     *)
(***************************************************************************)
EXTENDS Integers, Sequences, FiniteSets, TLC

(***************************************************************************)
(* Bounds of the model and the input sets the calls draw from.             *)
(***************************************************************************)
\* Longest trade history explored.
MaxTrades == 3
\* Longest decision log of the signal processor explored.
MaxLog == 1

Symbols == {"SOL", "BONK"}
BuySignals == {"BUY", "STRONG_BUY"}
SellSignals == {"SELL", "AVOID"}
Signals == BuySignals \cup SellSignals \cup {"HOLD"}
\* Prices at which 500 USD buy 0.0002 or 0.00005 units, so that quantities on
\* both sides of the closing tolerance occur; a zero and a negative price.
Prices == {-10000000, 0, 2500000, 10000000}
\* signal_data without a 'current_price' key carries <<>>, with one <<price>>.
NoPrice == <<>>
PriceInputs == {<<p>> : p \in Prices} \cup {NoPrice}
Sizes == {0, 500}
Confidences == {59, 60, 75}
StartingBalances == {1000}

(***************************************************************************)
(* Rational arithmetic standing for the float arithmetic of the source.    *)
(***************************************************************************)
Abs(n) == IF n < 0 THEN -n ELSE n

RECURSIVE GCD(_, _)
GCD(a, b) == IF b = 0 THEN a ELSE GCD(b, a % b)

RNorm(n, d) ==
    IF n = 0 THEN <<0, 1>>
    ELSE LET g == GCD(Abs(n), Abs(d))
             s == IF d < 0 THEN -1 ELSE 1
         IN  <<(s * n) \div g, (s * d) \div g>>

R(n) == <<n, 1>>

RNeg(a) == <<-a[1], a[2]>>

RAdd(a, b) ==
    LET g == GCD(a[2], b[2])
        l == (a[2] \div g) * b[2]
    IN  RNorm(a[1] * (l \div a[2]) + b[1] * (l \div b[2]), l)

RSub(a, b) == RAdd(a, RNeg(b))

RMul(a, b) ==
    IF a[1] = 0 \/ b[1] = 0 THEN <<0, 1>>
    ELSE LET g1 == GCD(Abs(a[1]), b[2])
             g2 == GCD(Abs(b[1]), a[2])
         IN  <<(a[1] \div g1) * (b[1] \div g2), (a[2] \div g2) * (b[2] \div g1)>>

\* b is not zero.
RDiv(a, b) ==
    RMul(a, IF b[1] > 0 THEN <<b[2], b[1]>> ELSE <<-b[2], -b[1]>>)

\* The sign of a - b.
RCmp(a, b) ==
    LET g == GCD(a[2], b[2])
    IN  a[1] * (b[2] \div g) - b[1] * (a[2] \div g)

RLt(a, b) == RCmp(a, b) < 0
RLe(a, b) == RCmp(a, b) <= 0
RGt(a, b) == RLt(b, a)
RGe(a, b) == RLe(b, a)

\* The closing tolerance 0.0001 of _execute_sell.
Epsilon == <<1, 10000>>

VARIABLES
    starting_balance,   \* VirtualPortfolio.starting_balance
    cash_balance,       \* VirtualPortfolio.cash_balance
    positions,          \* VirtualPortfolio.positions: symbol -> position
    trade_history,      \* VirtualPortfolio.trade_history
    total_trades,       \* VirtualPortfolio.total_trades
    winning_trades,     \* VirtualPortfolio.winning_trades
    losing_trades,      \* VirtualPortfolio.losing_trades
    portfolio_history,  \* VirtualPortfolio.portfolio_history
    saved_file,         \* data/virtual_portfolio.json
    processed_signals,  \* SignalProcessor.processed_signals
    parked,             \* a second VirtualPortfolio object, if there is one
    result,             \* what the last call returned
    pc,                 \* per thread: the line its call on the ledger is at
    frame,              \* per thread: the locals of that call
    engine,             \* the fields of the AutoTradingEngine
    alert_manager,      \* AlertManager: the active alerts, and all it created
    now,                \* datetime.now(), in seconds
    loop,               \* where the monitoring thread is in _monitoring_loop
    entry_log           \* per alert id: what the entry pass last logged for it

ledger == <<starting_balance, cash_balance, positions, trade_history,
            total_trades, winning_trades, losing_trades, portfolio_history>>

vars == <<starting_balance, cash_balance, positions, trade_history,
          total_trades, winning_trades, losing_trades, portfolio_history,
          saved_file, processed_signals, parked, result, pc, frame,
          engine, alert_manager, now, loop, entry_log>>

\* The state of the auto-trading monitor and of what it polls.
monitor == <<engine, alert_manager, now, loop, entry_log>>

\* The state of the threads that share the ledger.
threads == <<pc, frame>>

\* The dict with no keys.
EmptyDict == [s \in {} |-> 0]

NoResult == [success |-> FALSE, error |-> "none yet"]

Failure(msg) == [success |-> FALSE, error |-> msg]

\* d with d[k] = v, as the assignment d[k] = v of a dict.
DictPut(d, k, v) == [x \in DOMAIN d \cup {k} |-> IF x = k THEN v ELSE d[x]]

\* d without key k, as del d[k].
DictDel(d, k) == [x \in DOMAIN d \ {k} |-> d[x]]

\* The file does not exist.
NoFile == [exists |-> FALSE]

\* There is one VirtualPortfolio object only.
NoPortfolio == [owner |-> ""]

\* The monitoring thread of AutoTradingEngine and the thread of a caller of
\* execute_signal_trade (a dashboard button), on one VirtualPortfolio.
Threads == {"monitor", "caller"}

NoPosition == [quantity |-> R(0), avg_price |-> R(0), total_cost |-> R(0)]

\* The locals of a thread that is in no call and has made none.
IdleFrame ==
    [symbol |-> "", side |-> "", quantity |-> R(0), price |-> R(0),
     total |-> R(0), cash_read |-> R(0), position |-> NoPosition,
     credited |-> FALSE, result |-> NoResult]

RECURSIVE PositionsValue(_, _)
\* Sum over the symbols in todo of quantity * avg_price, the fallback price
\* get_current_portfolio_value uses for a symbol with no current price.
PositionsValue(pos, todo) ==
    IF todo = {} THEN R(0)
    ELSE LET s == CHOOSE x \in todo : TRUE
         IN  RAdd(RMul(pos[s].quantity, pos[s].avg_price),
                  PositionsValue(pos, todo \ {s}))

\* get_current_portfolio_value({}): no current price is known.
get_current_portfolio_value(cash, pos) == RAdd(cash, PositionsValue(pos, DOMAIN pos))

\* The rolling window of snapshots.
HistoryWindow == 30

\* _update_portfolio_value(): the history with one snapshot appended, cut to
\* its last HistoryWindow entries.
_update_portfolio_value(history, cash, pos) ==
    LET appended == Append(history,
                           [value |-> get_current_portfolio_value(cash, pos),
                            cash |-> cash, positions |-> pos])
        n == Len(appended)
    IN  IF n > HistoryWindow
        THEN SubSeq(appended, n - HistoryWindow + 1, n)
        ELSE appended

\* The defaults of AutoTradingEngine.__init__.
min_confidence_threshold == 85
\* AutoTradingEngine.default_position_size and .max_positions.
default_position_size == 500
max_positions == 10
cooldown_period == 300

\* self.monitoring_thread = None
NoThread == ""

\* AutoTradingEngine.__init__: not enabled, no thread, nothing processed.
NewEngine ==
    [enabled |-> FALSE, stop_monitoring |-> FALSE, monitoring_thread |-> NoThread,
     min_confidence_threshold |-> min_confidence_threshold,
     max_positions |-> max_positions, cooldown_period |-> cooldown_period,
     last_trade_times |-> EmptyDict, processed_alerts |-> {},
     auto_trades_executed |-> 0]

\* AlertManager.__init__: no alert yet.
NoAlerts == [active_alerts |-> <<>>, alert_history |-> {}]

\* No monitoring thread exists.
NoLoop == [phase |-> "none", todo |-> <<>>, seen |-> {}, evaluated |-> {},
           exits |-> {}, failed |-> FALSE]

\* VirtualPortfolio.__init__, with no saved file to load.
Init ==
    /\ starting_balance \in {R(b) : b \in StartingBalances}
    /\ cash_balance = starting_balance
    /\ positions = EmptyDict
    /\ trade_history = <<>>
    /\ total_trades = 0
    /\ winning_trades = 0
    /\ losing_trades = 0
    /\ portfolio_history = _update_portfolio_value(<<>>, cash_balance, positions)
    /\ saved_file = NoFile
    /\ processed_signals = <<>>
    /\ parked = NoPortfolio
    /\ result = NoResult
    /\ pc = [t \in Threads |-> "idle"]
    /\ frame = [t \in Threads |-> IdleFrame]
    /\ engine = NewEngine
    /\ alert_manager = NoAlerts
    /\ now = 0
    /\ loop = NoLoop
    /\ entry_log = EmptyDict

(***************************************************************************)
(* VirtualPortfolio._execute_buy                                           *)
(***************************************************************************)
\* A funds check that also refuses a cost equal to the cash.
InsufficientCashOrEqual(total_cost, cash) == RGe(total_cost, cash)

\* The funds check of a buy: total_cost > self.cash_balance.
InsufficientCash(total_cost, cash) == RGt(total_cost, cash)

\* new_avg_price = new_total_cost / new_quantity
NewAvgPrice(new_total_cost, new_quantity) == RDiv(new_total_cost, new_quantity)

\* A buy that overwrites the average price with the price of the last buy.
BuyPositionLastPrice(pos, symbol, quantity, price, total_cost) ==
    IF symbol \in DOMAIN pos
    THEN [quantity |-> RAdd(pos[symbol].quantity, quantity),
          avg_price |-> price,
          total_cost |-> RAdd(pos[symbol].total_cost, total_cost)]
    ELSE [quantity |-> quantity, avg_price |-> price, total_cost |-> total_cost]

\* The position a buy stores: merged into the old one, or created.
BuyPosition(pos, symbol, quantity, price, total_cost) ==
    IF symbol \in DOMAIN pos
    THEN LET old_quantity == pos[symbol].quantity
             old_total_cost == pos[symbol].total_cost
             new_quantity == RAdd(old_quantity, quantity)
             new_total_cost == RAdd(old_total_cost, total_cost)
         IN  [quantity |-> new_quantity,
              avg_price |-> NewAvgPrice(new_total_cost, new_quantity),
              total_cost |-> new_total_cost]
    ELSE [quantity |-> quantity, avg_price |-> price, total_cost |-> total_cost]

\* A record that keeps the dollars spent where the price belongs.
BuyRecordCostAsPrice(symbol, quantity, price, total_cost, cash_after) ==
    [symbol |-> symbol, side |-> "BUY", quantity |-> quantity,
     price |-> total_cost, total_value |-> total_cost,
     cash_balance_after |-> cash_after]

BuyRecord(symbol, quantity, price, total_cost, cash_after) ==
    [symbol |-> symbol, side |-> "BUY", quantity |-> quantity, price |-> price,
     total_value |-> total_cost, cash_balance_after |-> cash_after]

\* A buy that is not counted in total_trades.
BuyTotalTradesNotCounted(n) == n

\* total_trades after a buy is appended to the history.
BuyTotalTrades(n) == n + 1

_execute_buy(symbol, quantity, price) ==
    LET total_cost == RMul(quantity, price)
    IN  IF InsufficientCash(total_cost, cash_balance)
        THEN /\ result' = Failure("Insufficient cash balance")
             /\ UNCHANGED ledger
        ELSE LET cash_after == RSub(cash_balance, total_cost)
                 new_position == BuyPosition(positions, symbol, quantity, price, total_cost)
                 trade_record == BuyRecord(symbol, quantity, price, total_cost, cash_after)
             IN  /\ cash_balance' = cash_after
                 /\ positions' = DictPut(positions, symbol, new_position)
                 /\ trade_history' = Append(trade_history, trade_record)
                 /\ total_trades' = BuyTotalTrades(total_trades)
                 /\ result' = [success |-> TRUE, trade_record |-> trade_record,
                               new_position |-> new_position,
                               remaining_cash |-> cash_after]
                 /\ UNCHANGED <<starting_balance, winning_trades, losing_trades, portfolio_history>>

(***************************************************************************)
(* VirtualPortfolio._execute_sell                                          *)
(***************************************************************************)
\* A sell that does not clamp the quantity asked for.
ClampQuantityNone(quantity, held) == quantity

\* A request for more than is held sells what is held.
ClampQuantity(quantity, held) == IF RGt(quantity, held) THEN held ELSE quantity

\* pnl = (price - avg_cost) * quantity
SellPnl(price, avg_cost, quantity) == RMul(RSub(price, avg_cost), quantity)

\* remaining_quantity <= 0.0001: the position is closed.
ClosesPosition(remaining_quantity) == RLe(remaining_quantity, Epsilon)

\* A sell that keeps the old total_cost of the position it reduces.
ReducedPositionOldCost(current_position, remaining_quantity) ==
    [quantity |-> remaining_quantity,
     avg_price |-> current_position.avg_price,
     total_cost |-> current_position.total_cost]

\* A sell that spreads the old total_cost over the remaining quantity.
ReducedPositionReaveraged(current_position, remaining_quantity) ==
    [quantity |-> remaining_quantity,
     avg_price |-> RDiv(current_position.total_cost, remaining_quantity),
     total_cost |-> current_position.total_cost]

\* The position a sell leaves open: same average price, cost recomputed.
ReducedPosition(current_position, remaining_quantity) ==
    [quantity |-> remaining_quantity,
     avg_price |-> current_position.avg_price,
     total_cost |-> RMul(remaining_quantity, current_position.avg_price)]

\* A sell that breaks even counted as a win.
IsWinOrEven(pnl) == RGe(pnl, R(0))

\* pnl > 0 counts as a win, anything else as a loss.
IsWin(pnl) == RGt(pnl, R(0))

_execute_sell(symbol, requested, price) ==
    IF symbol \notin DOMAIN positions
    THEN /\ result' = Failure("No position to sell")
         /\ UNCHANGED ledger
    ELSE LET current_position == positions[symbol]
             quantity == ClampQuantity(requested, current_position.quantity)
             total_proceeds == RMul(quantity, price)
             avg_cost == current_position.avg_price
             pnl == SellPnl(price, avg_cost, quantity)
         IN  IF avg_cost[1] = 0
             THEN \* pnl_percentage divides by avg_cost: ZeroDivisionError, caught
                  /\ result' = Failure("float division by zero")
                  /\ UNCHANGED ledger
             ELSE LET pnl_percentage ==
                          RMul(RDiv(RSub(price, avg_cost), avg_cost), R(100))
                      cash_after == RAdd(cash_balance, total_proceeds)
                      left == RSub(current_position.quantity, quantity)
                      closes == ClosesPosition(left)
                      remaining_quantity == IF closes THEN R(0) ELSE left
                      trade_record ==
                          [symbol |-> symbol, side |-> "SELL", quantity |-> quantity,
                           price |-> price, total_value |-> total_proceeds,
                           pnl |-> pnl, pnl_percentage |-> pnl_percentage,
                           avg_cost |-> avg_cost, cash_balance_after |-> cash_after,
                           remaining_position |-> remaining_quantity]
                  IN  /\ cash_balance' = cash_after
                      /\ positions' =
                            IF closes
                            THEN DictDel(positions, symbol)
                            ELSE DictPut(positions, symbol,
                                         ReducedPosition(current_position, left))
                      /\ winning_trades' =
                            IF IsWin(pnl) THEN winning_trades + 1 ELSE winning_trades
                      /\ losing_trades' =
                            IF IsWin(pnl) THEN losing_trades ELSE losing_trades + 1
                      /\ trade_history' = Append(trade_history, trade_record)
                      /\ total_trades' = total_trades + 1
                      /\ result' = [success |-> TRUE, trade_record |-> trade_record,
                                    pnl |-> pnl, pnl_percentage |-> pnl_percentage,
                                    remaining_cash |-> cash_after,
                                    remaining_position |-> remaining_quantity]
                      /\ UNCHANGED <<starting_balance, portfolio_history>>

(***************************************************************************)
(* VirtualPortfolio.execute_virtual_trade                                  *)
(***************************************************************************)
\* signal_data.get('current_price', default)
GetPrice(price, default) == IF price = NoPrice THEN default ELSE R(price[1])

InvalidPrice(current_price) == RLe(current_price, R(0))

InvalidSize(position_size_usd) == RLe(position_size_usd, R(0))

execute_virtual_trade(symbol, signal_type, price, position_size_usd) ==
    LET current_price == GetPrice(price, R(0))
    IN  IF InvalidPrice(current_price)
        THEN /\ result' = Failure("Invalid price")
             /\ UNCHANGED ledger
        ELSE IF InvalidSize(position_size_usd)
        THEN /\ result' = Failure("Invalid position size")
             /\ UNCHANGED ledger
        ELSE LET quantity == RDiv(position_size_usd, current_price)
             IN  IF signal_type \in BuySignals
                 THEN _execute_buy(symbol, quantity, current_price)
                 ELSE IF signal_type \in SellSignals
                 THEN _execute_sell(symbol, quantity, current_price)
                 ELSE /\ result' = Failure("No action for signal")
                      /\ UNCHANGED ledger

\* A caller of execute_virtual_trade with any signal, price and size.
ExecuteVirtualTrade ==
    /\ Len(trade_history) < MaxTrades
    /\ \E symbol \in Symbols, signal_type \in Signals,
          price \in PriceInputs, size \in Sizes :
            execute_virtual_trade(symbol, signal_type, price, R(size))
    /\ UNCHANGED <<saved_file, processed_signals, parked, threads, monitor>>

(***************************************************************************)
(* save_portfolio_state and the helper execute_signal_trade                *)
(***************************************************************************)
\* What save_portfolio_state writes, given the fields of the ledger.
PortfolioState(sb, cash, pos, trades, history, total, wins, losses) ==
    [exists |-> TRUE, starting_balance |-> sb, cash_balance |-> cash,
     positions |-> pos, trade_history |-> trades, portfolio_history |-> history,
     total_trades |-> total, winning_trades |-> wins, losing_trades |-> losses]

\* execute_virtual_trade, and a save of the ledger when the trade succeeded.
execute_signal_trade(symbol, signal_type, price, position_size_usd) ==
    /\ execute_virtual_trade(symbol, signal_type, price, position_size_usd)
    /\ saved_file' =
          IF result'.success
          THEN PortfolioState(starting_balance', cash_balance', positions',
                              trade_history', portfolio_history', total_trades',
                              winning_trades', losing_trades')
          ELSE saved_file

(***************************************************************************)
(* SignalProcessor                                                         *)
(***************************************************************************)
min_confidence_buy == 75
min_confidence_sell == 60
position_size_usd == 500

_has_position_never(symbol) == FALSE

_has_position(symbol) ==
    symbol \in DOMAIN positions /\ RGt(positions[symbol].quantity, R(0))

_make_trade_decision(symbol, signal_type, confidence) ==
    IF signal_type \in BuySignals
    THEN IF confidence >= min_confidence_buy
         THEN IF _has_position(symbol)
              THEN [should_trade |-> FALSE, action |-> "", reason |-> "already_holding"]
              ELSE [should_trade |-> TRUE, action |-> "BUY", reason |-> "above_threshold"]
         ELSE [should_trade |-> FALSE, action |-> "", reason |-> "below_buy_threshold"]
    ELSE IF signal_type \in SellSignals
    THEN IF confidence >= min_confidence_sell
         THEN IF _has_position(symbol)
              THEN [should_trade |-> TRUE, action |-> "SELL", reason |-> "exit_signal"]
              ELSE [should_trade |-> FALSE, action |-> "", reason |-> "no_position_to_sell"]
         ELSE [should_trade |-> FALSE, action |-> "", reason |-> "below_sell_threshold"]
    ELSE [should_trade |-> FALSE, action |-> "", reason |-> "signal_no_action_required"]

\* SignalProcessor._execute_trade: a BUY goes through execute_signal_trade, a
\* SELL calls _execute_sell itself with the held quantity and the signal's
\* price (the position's average price when the signal carries none).
_execute_trade(symbol, signal_type, price, action) ==
    IF action = "BUY"
    THEN execute_signal_trade(symbol, signal_type, price, R(position_size_usd))
    ELSE LET held == symbol \in DOMAIN positions
             quantity == IF held THEN positions[symbol].quantity ELSE R(0)
             default == IF held THEN positions[symbol].avg_price ELSE R(0)
         IN  /\ _execute_sell(symbol, quantity, GetPrice(price, default))
             /\ UNCHANGED saved_file

\* The entry _log_trade_decision appends: the signal's symbol, the decision and
\* the outcome (the timestamp, the rest of the signal and the portfolio value
\* are left out).
DecisionLogEntry(symbol, signal_type, decision, trade_result) ==
    [symbol |-> symbol, action |-> decision.action,
     success |-> trade_result.success]

process_new_signal(symbol, signal_type, confidence, price) ==
    LET trade_decision == _make_trade_decision(symbol, signal_type, confidence)
    IN  IF trade_decision.should_trade
        THEN /\ _execute_trade(symbol, signal_type, price, trade_decision.action)
             /\ processed_signals' =
                   Append(processed_signals,
                          DecisionLogEntry(symbol, signal_type, trade_decision, result'))
        ELSE /\ result' = [success |-> FALSE, action |-> "no_trade",
                           reason |-> trade_decision.reason]
             /\ UNCHANGED <<ledger, saved_file, processed_signals>>

\* The signal processor receives a signal.
ProcessNewSignal ==
    /\ Len(trade_history) < MaxTrades
    /\ Len(processed_signals) < MaxLog
    /\ \E symbol \in Symbols, signal_type \in Signals,
          confidence \in Confidences, price \in PriceInputs :
            process_new_signal(symbol, signal_type, confidence, price)
    /\ UNCHANGED <<threads, monitor, parked>>

Next ==
    \/ ExecuteVirtualTrade
    \/ ProcessNewSignal

Spec == Init /\ [][Next]_vars

\* The ledger driven by execute_virtual_trade calls alone.
NextLedger == ExecuteVirtualTrade

SpecLedger == Init /\ [][NextLedger]_vars

\* The signal processor on a ledger that already holds positions: what buys of
\* position_size_usd dollars left, SOL's before BONK's, a symbol being bought
\* at one of the positive prices or not at all (0).
Holdings == [Symbols -> {0} \cup {p \in Prices : p > 0}]

HeldSeq(h) == SelectSeq(<<"SOL", "BONK">>, LAMBDA symbol : h[symbol] # 0)

InitProcessor ==
    \E h \in Holdings :
       LET held == HeldSeq(h)
           cost == R(position_size_usd)
           CashAfter(i) == RSub(starting_balance, RMul(R(i), cost))
       IN  /\ starting_balance \in {R(b) : b \in StartingBalances}
           /\ cash_balance = CashAfter(Len(held))
           /\ positions =
                 [symbol \in {held[i] : i \in 1..Len(held)} |->
                     BuyPosition(EmptyDict, symbol, RDiv(cost, R(h[symbol])),
                                 R(h[symbol]), cost)]
           /\ trade_history =
                 [i \in 1..Len(held) |->
                     BuyRecord(held[i], RDiv(cost, R(h[held[i]])), R(h[held[i]]),
                               cost, CashAfter(i))]
           /\ total_trades = Len(held)
           /\ winning_trades = 0
           /\ losing_trades = 0
           /\ portfolio_history =
                 _update_portfolio_value(<<>>, starting_balance, EmptyDict)
           /\ saved_file = NoFile
           /\ processed_signals = <<>>
           /\ parked = NoPortfolio
    /\ parked = NoPortfolio
           /\ result = NoResult
           /\ pc = [t \in Threads |-> "idle"]
           /\ frame = [t \in Threads |-> IdleFrame]
           /\ engine = NewEngine
           /\ alert_manager = NoAlerts
           /\ now = 0
           /\ loop = NoLoop
           /\ entry_log = EmptyDict

NextProcessor == ProcessNewSignal

SpecProcessor == InitProcessor /\ [][NextProcessor]_vars

(***************************************************************************)
(* The saved file: save_portfolio_state, load_portfolio_state and          *)
(* create_virtual_portfolio.  json writes the floats, strings, lists and   *)
(* string-keyed dicts of the ledger as text that json.load reads back to   *)
(* equal values, so that a written file is the record of the fields; load  *)
(* reads each key with dict.get and a default.                             *)
(***************************************************************************)
\* The default of 'starting_balance' in load_portfolio_state.
DefaultStartingBalance == 10000

\* A file that json.load cannot read as an object: a write that was cut short.
Unparsable == [exists |-> TRUE, malformed |-> TRUE]

\* A JSON object that lacks keys of the record.
Incomplete == [exists |-> TRUE, cash_balance |-> R(position_size_usd)]

\* The fields of the ledger, as save_portfolio_state collects them.
Fields ==
    PortfolioState(starting_balance, cash_balance, positions, trade_history,
                   portfolio_history, total_trades, winning_trades,
                   losing_trades)

\* VirtualPortfolio.__init__
FreshState(sb) ==
    PortfolioState(sb, sb, EmptyDict, <<>>,
                   _update_portfolio_value(<<>>, sb, EmptyDict), 0, 0, 0)

\* A get that ignores the object.
GetDefault(obj, key, default) == default

\* dict.get
Get(obj, key, default) == IF key \in DOMAIN obj THEN obj[key] ELSE default

\* A load that fails on a missing file only.
LoadFailsWhenMissing(file) == ~file.exists

\* open() raises FileNotFoundError, json.load raises, or the value read has no
\* get: load_portfolio_state returns False before it assigns a field.
LoadFails(file) == ~file.exists \/ "malformed" \in DOMAIN file

\* The fields after load_portfolio_state on a ledger with the fields cur.
LoadedState(file, cur) ==
    IF LoadFails(file)
    THEN cur
    ELSE LET sb == Get(file, "starting_balance", R(DefaultStartingBalance))
         IN  PortfolioState(sb,
                            Get(file, "cash_balance", sb),
                            Get(file, "positions", EmptyDict),
                            Get(file, "trade_history", <<>>),
                            Get(file, "portfolio_history", <<>>),
                            Get(file, "total_trades", 0),
                            Get(file, "winning_trades", 0),
                            Get(file, "losing_trades", 0))

Assign(s) ==
    /\ starting_balance' = s.starting_balance
    /\ cash_balance' = s.cash_balance
    /\ positions' = s.positions
    /\ trade_history' = s.trade_history
    /\ portfolio_history' = s.portfolio_history
    /\ total_trades' = s.total_trades
    /\ winning_trades' = s.winning_trades
    /\ losing_trades' = s.losing_trades

\* What a call of the persistence layer returned.
Returned(call, value) == [success |-> value, call |-> call]

\* The write succeeds, or raises after open() has truncated the file.
save_portfolio_state ==
    /\ \E written \in BOOLEAN :
          /\ saved_file' = IF written THEN Fields ELSE Unparsable
          /\ result' = Returned("save_portfolio_state", written)
    /\ UNCHANGED <<ledger, processed_signals, parked, threads, monitor>>

load_portfolio_state ==
    /\ Assign(LoadedState(saved_file, Fields))
    /\ result' = Returned("load_portfolio_state", ~LoadFails(saved_file))
    /\ UNCHANGED <<saved_file, processed_signals, parked, threads, monitor>>

\* A new VirtualPortfolio takes the place of the old one and loads the file.
create_virtual_portfolio(sb) ==
    /\ Assign(LoadedState(saved_file, FreshState(sb)))
    /\ result' = Returned("create_virtual_portfolio", TRUE)
    /\ UNCHANGED <<saved_file, processed_signals, parked, threads, monitor>>

CreateVirtualPortfolio ==
    \E b \in StartingBalances : create_virtual_portfolio(R(b))

\* The file is deleted, or replaced by one that this version did not write.
FileReplaced ==
    /\ saved_file' \in {NoFile, Incomplete}
    /\ saved_file' # saved_file
    /\ UNCHANGED <<ledger, result, processed_signals, parked, threads, monitor>>

\* A dashboard trade: execute_signal_trade with the default position size.
ExecuteSignalTrade ==
    /\ Len(trade_history) < MaxTrades
    /\ \E symbol \in Symbols, signal_type \in {"BUY", "SELL"},
          price \in {p \in Prices : p > 0} :
            execute_signal_trade(symbol, signal_type, <<price>>,
                                 R(position_size_usd))
    /\ UNCHANGED <<processed_signals, parked, threads, monitor>>

NextPersist ==
    \/ ExecuteSignalTrade
    \/ save_portfolio_state
    \/ load_portfolio_state
    \/ CreateVirtualPortfolio
    \/ FileReplaced

SpecPersist == Init /\ [][NextPersist]_vars

(***************************************************************************)
(* Two VirtualPortfolio objects on one file.  The dashboard creates one    *)
(* for the session and hands it to the AutoTradingEngine;                  *)
(* SignalProcessor.__init__ creates another for itself.  Both save to      *)
(* data/virtual_portfolio.json.  The ledger variables show the object on   *)
(* which the next call is made, and parked keeps the fields of the other.  *)
(***************************************************************************)
\* The owner of the object that the ledger variables show.
Shown == IF parked.owner = "processor" THEN "session" ELSE "processor"

\* Both objects were created, by create_virtual_portfolio, with no file.
InitShared ==
    /\ starting_balance \in {R(b) : b \in StartingBalances}
    /\ cash_balance = starting_balance
    /\ positions = EmptyDict
    /\ trade_history = <<>>
    /\ total_trades = 0
    /\ winning_trades = 0
    /\ losing_trades = 0
    /\ portfolio_history = _update_portfolio_value(<<>>, cash_balance, positions)
    /\ saved_file = NoFile
    /\ processed_signals = <<>>
    /\ parked = [owner |-> "processor", fields |-> FreshState(starting_balance)]
    /\ result = NoResult
    /\ pc = [t \in Threads |-> "idle"]
    /\ frame = [t \in Threads |-> IdleFrame]
    /\ engine = NewEngine
    /\ alert_manager = NoAlerts
    /\ now = 0
    /\ loop = NoLoop
    /\ entry_log = EmptyDict

\* The next call is made on the other object; no object changes.
Switch ==
    /\ Assign(parked.fields)
    /\ parked' = [owner |-> Shown, fields |-> Fields]
    /\ UNCHANGED <<saved_file, processed_signals, result, threads, monitor>>

\* The monitor or a dashboard button trades on the session's object.
SessionTrade == Shown = "session" /\ ExecuteSignalTrade

\* The signal processor receives a signal and trades on its own object.
ProcessorSignal == Shown = "processor" /\ ProcessNewSignal

NextShared ==
    \/ SessionTrade
    \/ ProcessorSignal
    \/ Switch

SpecShared == InitShared /\ [][NextShared]_vars

(***************************************************************************)
(* One ledger, two threads.  VirtualPortfolio takes no lock: a call is a   *)
(* sequence of steps, one per statement that reads or writes the shared    *)
(* fields, and the steps of the two threads interleave.  A label names the *)
(* line of paper_trading.py (or signal_integration.py) the thread is at.   *)
(* A result keeps the fields its callers read: success and error.          *)
(***************************************************************************)
\* The symbols the alerts name and the price the feed reports for them.
AlertSymbols == Symbols
MarketPrices == {2500000}
AlertSignals == {"BUY", "SELL"}

Success == [success |-> TRUE, error |-> ""]

\* str(KeyError(symbol)), the error text of a missing dict key.
KeyErrorText(symbol) == "'" \o symbol \o "'"

\* Calls begin only while the history can still grow.
CanStart ==
    Len(trade_history) + Cardinality({t \in Threads : pc[t] # "idle"}) < MaxTrades

\* The call of thread t, its locals being f, returns res to
\* execute_signal_trade, which saves the ledger after a success.
Return(t, f, res) ==
    /\ frame' = [frame EXCEPT ![t] =
                    [IdleFrame EXCEPT !.symbol = f.symbol, !.side = f.side,
                                      !.credited = f.credited, !.result = res]]
    /\ pc' = [pc EXCEPT ![t] = IF res.success THEN "save_442" ELSE "idle"]

\* execute_virtual_trade up to the call of _execute_buy or _execute_sell: it
\* reads its arguments only.
StartTrade(t, symbol, signal_type, current_price, size) ==
    LET side == IF signal_type \in BuySignals THEN "BUY"
                ELSE IF signal_type \in SellSignals THEN "SELL" ELSE ""
        call == [IdleFrame EXCEPT !.symbol = symbol, !.side = side,
                                  !.price = current_price,
                                  !.quantity = RDiv(size, current_price)]
    IN  IF InvalidPrice(current_price)
        THEN Return(t, IdleFrame, Failure("Invalid price"))
        ELSE IF InvalidSize(size)
        THEN Return(t, IdleFrame, Failure("Invalid position size"))
        ELSE IF side = ""
        THEN Return(t, IdleFrame, Failure("No action for signal"))
        ELSE /\ frame' = [frame EXCEPT ![t] = call]
             /\ pc' = [pc EXCEPT ![t] = IF side = "BUY" THEN "buy_82" ELSE "sell_143"]

\* A dashboard button: execute_signal_trade on the session's portfolio.
CallerTrade ==
    /\ pc["caller"] = "idle"
    /\ CanStart
    /\ \E symbol \in AlertSymbols, signal_type \in AlertSignals,
          price \in MarketPrices, size \in {z \in Sizes : z > 0} :
            StartTrade("caller", symbol, signal_type, R(price), R(size))
    /\ UNCHANGED <<ledger, saved_file, processed_signals, parked, result, monitor>>

\* _process_new_signals: a buy alert that _should_auto_trade accepts (fewer
\* than max_positions positions, none in the symbol) goes to
\* _execute_auto_trade.  Confidence and cooldown are taken as satisfied.
MonitorAutoTrade ==
    /\ pc["monitor"] = "idle"
    /\ CanStart
    /\ \E symbol \in AlertSymbols, price \in MarketPrices :
          /\ Cardinality(DOMAIN positions) < max_positions
          /\ symbol \notin DOMAIN positions
          /\ StartTrade("monitor", symbol, "BUY", R(price), R(default_position_size))
    /\ UNCHANGED <<ledger, saved_file, processed_signals, parked, result, monitor>>

\* _check_exit_signals: a SELL or AVOID alert for a held symbol goes to
\* _execute_auto_exit.
MonitorCheckExit ==
    /\ pc["monitor"] = "idle"
    /\ CanStart
    /\ \E symbol \in AlertSymbols, price \in MarketPrices :
          /\ symbol \in DOMAIN positions
          /\ frame' = [frame EXCEPT !["monitor"] =
                          [IdleFrame EXCEPT !.symbol = symbol, !.side = "SELL",
                                            !.price = R(price)]]
          /\ pc' = [pc EXCEPT !["monitor"] = "exit_205"]
    /\ UNCHANGED <<ledger, saved_file, processed_signals, parked, result, monitor>>

\* _execute_auto_exit: the position is read and its whole value is the size
\* of the sell; a missing position raises KeyError and no trade is tried.
MonitorExit ==
    /\ pc["monitor"] = "exit_205"
    /\ LET f == frame["monitor"]
       IN  IF f.symbol \notin DOMAIN positions
           THEN /\ frame' = [frame EXCEPT !["monitor"] = IdleFrame]
                /\ pc' = [pc EXCEPT !["monitor"] = "idle"]
           ELSE StartTrade("monitor", f.symbol, "SELL", f.price,
                           RMul(positions[f.symbol].quantity, f.price))
    /\ UNCHANGED <<ledger, saved_file, processed_signals, parked, result, monitor>>

\* What a step of thread t leaves alone besides the ledger fields it names.
Others == <<saved_file, processed_signals, parked, result, monitor>>

\* _execute_buy line 82: the funds check.
buy_82(t) ==
    /\ pc[t] = "buy_82"
    /\ LET f == frame[t]
           total_cost == RMul(f.quantity, f.price)
       IN  IF InsufficientCash(total_cost, cash_balance)
           THEN Return(t, f, Failure("Insufficient cash balance"))
           ELSE /\ frame' = [frame EXCEPT ![t].total = total_cost]
                /\ pc' = [pc EXCEPT ![t] = "buy_86"]
    /\ UNCHANGED <<ledger, Others>>

\* Line 86, self.cash_balance -= total_cost: the read of the balance ...
buy_86_load(t) ==
    /\ pc[t] = "buy_86"
    /\ frame' = [frame EXCEPT ![t].cash_read = cash_balance]
    /\ pc' = [pc EXCEPT ![t] = "buy_86_store"]
    /\ UNCHANGED <<ledger, Others>>

\* ... and the write of the difference.
buy_86_store(t) ==
    /\ pc[t] = "buy_86_store"
    /\ cash_balance' = RSub(frame[t].cash_read, frame[t].total)
    /\ pc' = [pc EXCEPT ![t] = "buy_89"]
    /\ UNCHANGED <<starting_balance, positions, trade_history, total_trades,
                   winning_trades, losing_trades, portfolio_history, frame, Others>>

\* Line 89: if symbol in self.positions.
buy_89(t) ==
    /\ pc[t] = "buy_89"
    /\ pc' = [pc EXCEPT ![t] =
                 IF frame[t].symbol \in DOMAIN positions THEN "buy_91" ELSE "buy_104"]
    /\ UNCHANGED <<ledger, frame, Others>>

\* Lines 91-95: the old position is read and the merged one computed; the
\* read raises KeyError when the position has been deleted meanwhile.
buy_91(t) ==
    /\ pc[t] = "buy_91"
    /\ LET f == frame[t]
       IN  IF f.symbol \notin DOMAIN positions
           THEN Return(t, f, Failure(KeyErrorText(f.symbol)))
           ELSE /\ frame' = [frame EXCEPT ![t].position =
                                BuyPosition(positions, f.symbol, f.quantity,
                                            f.price, f.total)]
                /\ pc' = [pc EXCEPT ![t] = "buy_97"]
    /\ UNCHANGED <<ledger, Others>>

\* Line 97: the merged position is stored.
buy_97(t) ==
    /\ pc[t] = "buy_97"
    /\ positions' = DictPut(positions, frame[t].symbol, frame[t].position)
    /\ pc' = [pc EXCEPT ![t] = "buy_111"]
    /\ UNCHANGED <<starting_balance, cash_balance, trade_history, total_trades,
                   winning_trades, losing_trades, portfolio_history, frame, Others>>

\* Line 104: a new position is stored.
buy_104(t) ==
    /\ pc[t] = "buy_104"
    /\ LET f == frame[t]
       IN  positions' = DictPut(positions, f.symbol,
                                BuyPosition(EmptyDict, f.symbol, f.quantity,
                                            f.price, f.total))
    /\ pc' = [pc EXCEPT ![t] = "buy_111"]
    /\ UNCHANGED <<starting_balance, cash_balance, trade_history, total_trades,
                   winning_trades, losing_trades, portfolio_history, frame, Others>>

\* Lines 111-124: the record is built (it reads the balance), appended, and
\* total_trades is incremented.
buy_111(t) ==
    /\ pc[t] = "buy_111"
    /\ LET f == frame[t]
       IN  trade_history' =
              Append(trade_history,
                     BuyRecord(f.symbol, f.quantity, f.price, f.total, cash_balance))
    /\ total_trades' = BuyTotalTrades(total_trades)
    /\ pc' = [pc EXCEPT ![t] = "buy_131"]
    /\ UNCHANGED <<starting_balance, cash_balance, positions, winning_trades,
                   losing_trades, portfolio_history, frame, Others>>

\* Lines 128-133: the result reads self.positions[symbol] once more.
buy_131(t) ==
    /\ pc[t] = "buy_131"
    /\ LET f == frame[t]
       IN  IF f.symbol \notin DOMAIN positions
           THEN Return(t, f, Failure(KeyErrorText(f.symbol)))
           ELSE Return(t, f, Success)
    /\ UNCHANGED <<ledger, Others>>

\* _execute_sell line 143: if symbol not in self.positions.
sell_143(t) ==
    /\ pc[t] = "sell_143"
    /\ LET f == frame[t]
       IN  IF f.symbol \notin DOMAIN positions
           THEN Return(t, f, Failure("No position to sell"))
           ELSE /\ pc' = [pc EXCEPT ![t] = "sell_146"]
                /\ UNCHANGED frame
    /\ UNCHANGED <<ledger, Others>>

\* Lines 146-158: the position is read, the quantity clamped to it, the
\* proceeds computed.
sell_146(t) ==
    /\ pc[t] = "sell_146"
    /\ LET f == frame[t]
       IN  IF f.symbol \notin DOMAIN positions
           THEN Return(t, f, Failure(KeyErrorText(f.symbol)))
           ELSE LET current_position == positions[f.symbol]
                    quantity == ClampQuantity(f.quantity, current_position.quantity)
                IN  IF current_position.avg_price[1] = 0
                    THEN Return(t, f, Failure("float division by zero"))
                    ELSE /\ frame' = [frame EXCEPT ![t].position = current_position,
                                                   ![t].quantity = quantity,
                                                   ![t].total = RMul(quantity, f.price)]
                         /\ pc' = [pc EXCEPT ![t] = "sell_161"]
    /\ UNCHANGED <<ledger, Others>>

\* Line 161, self.cash_balance += total_proceeds: the read of the balance ...
sell_161_load(t) ==
    /\ pc[t] = "sell_161"
    /\ frame' = [frame EXCEPT ![t].cash_read = cash_balance]
    /\ pc' = [pc EXCEPT ![t] = "sell_161_store"]
    /\ UNCHANGED <<ledger, Others>>

\* ... and the write of the sum: from here on the call has credited the cash.
sell_161_store(t) ==
    /\ pc[t] = "sell_161_store"
    /\ cash_balance' = RAdd(frame[t].cash_read, frame[t].total)
    /\ frame' = [frame EXCEPT ![t].credited = TRUE]
    /\ pc' = [pc EXCEPT ![t] = "sell_164"]
    /\ UNCHANGED <<starting_balance, positions, trade_history, total_trades,
                   winning_trades, losing_trades, portfolio_history, Others>>

\* Lines 164-175: the position is deleted (KeyError when it is gone already)
\* or replaced by the reduced one.
sell_164(t) ==
    /\ pc[t] = "sell_164"
    /\ LET f == frame[t]
           remaining_quantity == RSub(f.position.quantity, f.quantity)
       IN  IF ClosesPosition(remaining_quantity)
           THEN IF f.symbol \notin DOMAIN positions
                THEN /\ Return(t, f, Failure(KeyErrorText(f.symbol)))
                     /\ UNCHANGED positions
                ELSE /\ positions' = DictDel(positions, f.symbol)
                     /\ pc' = [pc EXCEPT ![t] = "sell_178"]
                     /\ UNCHANGED frame
           ELSE /\ positions' = DictPut(positions, f.symbol,
                                        ReducedPosition(f.position, remaining_quantity))
                /\ pc' = [pc EXCEPT ![t] = "sell_178"]
                /\ UNCHANGED frame
    /\ UNCHANGED <<starting_balance, cash_balance, trade_history, total_trades,
                   winning_trades, losing_trades, portfolio_history, Others>>

\* Lines 178-212: the win or loss is counted, the record built (it reads the
\* balance) and appended, total_trades incremented, the result returned.
sell_178(t) ==
    /\ pc[t] = "sell_178"
    /\ LET f == frame[t]
           avg_cost == f.position.avg_price
           pnl == SellPnl(f.price, avg_cost, f.quantity)
           left == RSub(f.position.quantity, f.quantity)
           trade_record ==
               [symbol |-> f.symbol, side |-> "SELL", quantity |-> f.quantity,
                price |-> f.price, total_value |-> f.total, pnl |-> pnl,
                pnl_percentage |->
                    RMul(RDiv(RSub(f.price, avg_cost), avg_cost), R(100)),
                avg_cost |-> avg_cost, cash_balance_after |-> cash_balance,
                remaining_position |-> IF ClosesPosition(left) THEN R(0) ELSE left]
       IN  /\ winning_trades' =
                 IF IsWin(pnl) THEN winning_trades + 1 ELSE winning_trades
           /\ losing_trades' =
                 IF IsWin(pnl) THEN losing_trades ELSE losing_trades + 1
           /\ trade_history' = Append(trade_history, trade_record)
           /\ total_trades' = total_trades + 1
           /\ Return(t, f, Success)
    /\ UNCHANGED <<starting_balance, cash_balance, positions, portfolio_history, Others>>

\* execute_signal_trade line 442: save_portfolio_state after a success.
save_442(t) ==
    /\ pc[t] = "save_442"
    /\ saved_file' = PortfolioState(starting_balance, cash_balance, positions,
                                    trade_history, portfolio_history, total_trades,
                                    winning_trades, losing_trades)
    /\ pc' = [pc EXCEPT ![t] = "idle"]
    /\ UNCHANGED <<ledger, frame, processed_signals, parked, result, monitor>>

NextConc ==
    \/ CallerTrade
    \/ MonitorAutoTrade
    \/ MonitorCheckExit
    \/ MonitorExit
    \/ \E t \in Threads :
          \/ buy_82(t) \/ buy_86_load(t) \/ buy_86_store(t) \/ buy_89(t)
          \/ buy_91(t) \/ buy_97(t) \/ buy_104(t) \/ buy_111(t) \/ buy_131(t)
          \/ sell_143(t) \/ sell_146(t) \/ sell_161_load(t) \/ sell_161_store(t)
          \/ sell_164(t) \/ sell_178(t) \/ save_442(t)

SpecConc == Init /\ [][NextConc]_vars

(***************************************************************************)
(* AutoTradingEngine: one monitoring thread polling the AlertManager and   *)
(* the price feed, and the dashboard calls that start, stop and reset it.  *)
(* The thread takes one step per alert of a pass; alerts come and go, and  *)
(* the dashboard acts, while the thread sleeps between two cycles.         *)
(***************************************************************************)
\* The poll cycles a run has, and the alerts the AlertManager creates in it.
MaxCycles == 2
MaxAlerts == 3

\* time.sleep(30) after a cycle, time.sleep(60) after an error in the loop.
PollSleep == 30
ErrorSleep == 60

\* The alerts the AlertManager can create (Alert.to_dict()).
AlertPool ==
    {[id |-> "SOL_BUY_1", symbol |-> "SOL", signal_type |-> "BUY",
      confidence_score |-> 90],
     [id |-> "BONK_STRONG_BUY_1", symbol |-> "BONK", signal_type |-> "STRONG_BUY",
      confidence_score |-> 85],
     [id |-> "BONK_BUY_1", symbol |-> "BONK", signal_type |-> "BUY",
      confidence_score |-> 80],
     [id |-> "SOL_AVOID_1", symbol |-> "SOL", signal_type |-> "AVOID",
      confidence_score |-> 50],
     [id |-> "BONK_SELL_1", symbol |-> "BONK", signal_type |-> "SELL",
      confidence_score |-> 90]}

\* What _get_current_price returns: a price of the feed, or None.
None == <<>>
PriceLookups == {<<p>> : p \in MarketPrices} \cup {None}

\* The settings update_settings is given before the monitor is started: one
\* position and a cooldown of two poll cycles, or the default cap and a
\* cooldown of one poll cycle.
Settings ==
    {[max_positions |-> 1, cooldown_period |-> 2 * PollSleep],
     [max_positions |-> max_positions, cooldown_period |-> PollSleep]}

\* An exception that leaves the call.
Raised(msg) == [success |-> FALSE, error |-> msg, raised |-> TRUE]

\* The engine once start_monitoring() has started the thread.
Started(e) == [e EXCEPT !.enabled = TRUE, !.stop_monitoring = FALSE,
                        !.monitoring_thread = "monitor"]

\* A fresh ledger and an engine set up by update_settings, its monitoring
\* thread started and about to test the loop condition.
InitMonitor ==
    /\ starting_balance \in {R(b) : b \in StartingBalances}
    /\ cash_balance = starting_balance
    /\ positions = EmptyDict
    /\ trade_history = <<>>
    /\ total_trades = 0
    /\ winning_trades = 0
    /\ losing_trades = 0
    /\ portfolio_history = _update_portfolio_value(<<>>, cash_balance, positions)
    /\ saved_file = NoFile
    /\ processed_signals = <<>>
    /\ parked = NoPortfolio
    /\ result = NoResult
    /\ pc = [t \in Threads |-> "idle"]
    /\ frame = [t \in Threads |-> IdleFrame]
    /\ \E kwargs \in Settings :
          engine = Started([NewEngine EXCEPT
                               !.max_positions = kwargs.max_positions,
                               !.cooldown_period = kwargs.cooldown_period])
    /\ alert_manager = NoAlerts
    /\ now = 0
    /\ loop = [NoLoop EXCEPT !.phase = "top"]
    /\ entry_log = EmptyDict

\* The monitoring thread is asleep between two poll cycles.
BetweenCycles == loop.phase = "top"

\* AlertManager.create_alert: a new alert, the newest first in
\* get_active_alerts.
CreateAlert ==
    /\ BetweenCycles
    /\ Cardinality(alert_manager.alert_history) < MaxAlerts
    /\ \E alert \in AlertPool :
          /\ alert.id \notin alert_manager.alert_history
          /\ alert_manager' =
                [active_alerts |-> <<alert>> \o alert_manager.active_alerts,
                 alert_history |-> alert_manager.alert_history \cup {alert.id}]
    /\ UNCHANGED <<ledger, saved_file, processed_signals, parked, result, threads,
                   engine, now, loop, entry_log>>

\* AlertManager.clear_old_alerts: the oldest alert is active no more.
clear_old_alerts ==
    /\ BetweenCycles
    /\ alert_manager.active_alerts # <<>>
    /\ alert_manager' =
          [alert_manager EXCEPT !.active_alerts =
              SubSeq(alert_manager.active_alerts, 1,
                     Len(alert_manager.active_alerts) - 1)]
    /\ UNCHANGED <<ledger, saved_file, processed_signals, parked, result, threads,
                   engine, now, loop, entry_log>>

\* clear_processed_alerts(), called from the dashboard.
clear_processed_alerts ==
    /\ BetweenCycles
    /\ engine' = [engine EXCEPT !.processed_alerts = {}]
    /\ UNCHANGED <<ledger, saved_file, processed_signals, parked, result, threads,
                   alert_manager, now, loop, entry_log>>

\* The loop condition of _monitoring_loop.
LoopRuns == ~engine.stop_monitoring /\ engine.enabled

\* What get_active_alerts() does when called: it returns the active alerts,
\* or the alert source raises.
Answers == {"returns", "raises"}

\* The log after the evaluation of alert id ended with outcome.
Logged(id, outcome) == DictPut(entry_log, id, outcome)

AtMaxPositionsAbove(held, max) == held > max

AtMaxPositions(held, max) == held >= max

InCooldownNever(elapsed, period) == FALSE

InCooldown(elapsed, period) == elapsed < period

\* The check of _should_auto_trade that turns the alert down, "" if none does.
Rejection(alert) ==
    IF alert.confidence_score < engine.min_confidence_threshold
    THEN "confidence"
    ELSE IF alert.signal_type \notin {"BUY", "STRONG_BUY"}
    THEN "signal_type"
    ELSE IF AtMaxPositions(Cardinality(DOMAIN positions), engine.max_positions)
    THEN "max_positions"
    ELSE IF /\ alert.symbol \in DOMAIN engine.last_trade_times
            /\ InCooldown(now - engine.last_trade_times[alert.symbol],
                          engine.cooldown_period)
    THEN "cooldown"
    ELSE IF alert.symbol \in DOMAIN positions
    THEN "held"
    ELSE ""

_should_auto_trade(alert) == Rejection(alert) = ""

\* The engine after a trade for symbol that ended with res.
AfterTrade(symbol, res) ==
    IF res.success
    THEN [engine EXCEPT !.auto_trades_executed = @ + 1,
                        !.last_trade_times = DictPut(@, symbol, now)]
    ELSE engine

MarkProcessedNever(processed_alerts, id) == processed_alerts

\* self.processed_alerts.add(alert['id'])
MarkProcessed(processed_alerts, id) == processed_alerts \cup {id}

\* while not self.stop_monitoring and self.enabled, then the call of
\* get_active_alerts() that opens _process_new_signals.
BeginCycle ==
    /\ loop.phase = "top"
    /\ now < MaxCycles * PollSleep
    /\ IF ~LoopRuns
       THEN loop' = NoLoop
       ELSE \E answer \in Answers :
                  loop' = IF answer = "returns"
                          THEN [NoLoop EXCEPT
                                   !.phase = "entry",
                                   !.todo = alert_manager.active_alerts,
                                   !.seen = {alert_manager.active_alerts[i].id :
                                               i \in 1..Len(alert_manager.active_alerts)}]
                          ELSE [NoLoop EXCEPT !.phase = "entry", !.failed = TRUE]
    /\ UNCHANGED <<ledger, saved_file, processed_signals, parked, result, threads,
                   engine, alert_manager, now, entry_log>>

\* One turn of the for loop of _process_new_signals, with the price the
\* feed gives to _execute_auto_trade.
EntryStep ==
    /\ loop.phase = "entry"
    /\ loop.todo # <<>>
    /\ LET alert == Head(loop.todo)
           processed == [engine EXCEPT
                            !.processed_alerts = MarkProcessed(@, alert.id)]
       IN  /\ loop' = [loop EXCEPT
                          !.todo = Tail(loop.todo),
                          !.evaluated = IF alert.id \in engine.processed_alerts
                                        THEN @ ELSE @ \cup {alert.id}]
           /\ IF alert.id \in engine.processed_alerts
              THEN UNCHANGED <<ledger, saved_file, result, engine, entry_log>>
              ELSE IF ~_should_auto_trade(alert)
              THEN /\ engine' = processed
                   /\ entry_log' = Logged(alert.id, Rejection(alert))
                   /\ UNCHANGED <<ledger, saved_file, result>>
              ELSE \E current_price \in PriceLookups :
                      IF current_price = None
                      THEN /\ engine' = processed
                           /\ entry_log' = Logged(alert.id, "no_price")
                           /\ UNCHANGED <<ledger, saved_file, result>>
                      ELSE /\ execute_signal_trade(alert.symbol, alert.signal_type,
                                                   current_price,
                                                   R(default_position_size))
                           /\ engine' =
                                 [AfterTrade(alert.symbol, result') EXCEPT
                                     !.processed_alerts = MarkProcessed(@, alert.id)]
                           /\ entry_log' =
                                 Logged(alert.id, IF result'.success THEN "traded"
                                                  ELSE "failed")
    /\ UNCHANGED <<processed_signals, parked, threads, alert_manager, now>>

\* _check_exit_signals begins: it returns at once without positions, else it
\* calls get_active_alerts().
BeginExit ==
    /\ loop.phase = "entry"
    /\ loop.todo = <<>>
    /\ IF DOMAIN positions = {}
       THEN loop' = [loop EXCEPT !.phase = "exit"]
       ELSE \E answer \in Answers :
               loop' = IF answer = "returns"
                       THEN [loop EXCEPT !.phase = "exit",
                                         !.todo = alert_manager.active_alerts]
                       ELSE [loop EXCEPT !.phase = "exit", !.failed = TRUE]
    /\ UNCHANGED <<ledger, saved_file, processed_signals, parked, result, threads,
                   engine, alert_manager, now, entry_log>>

ExitSizeHalf(position, current_price) ==
    RMul(RDiv(position.quantity, R(2)), current_price)

\* position_size_usd of _execute_auto_exit.
ExitSize(position, current_price) == RMul(position.quantity, current_price)

\* One turn of the for loop of _check_exit_signals, with the price the feed
\* gives to _execute_auto_exit.
ExitStep ==
    /\ loop.phase = "exit"
    /\ loop.todo # <<>>
    /\ LET alert == Head(loop.todo)
           symbol == alert.symbol
       IN  IF symbol \notin DOMAIN positions \/ alert.signal_type \notin {"AVOID", "SELL"}
           THEN /\ loop' = [loop EXCEPT !.todo = Tail(loop.todo)]
                /\ UNCHANGED <<ledger, saved_file, result, engine>>
           ELSE \E current_price \in PriceLookups :
                   IF current_price = None
                   THEN /\ loop' = [loop EXCEPT !.todo = Tail(loop.todo)]
                        /\ UNCHANGED <<ledger, saved_file, result, engine>>
                   ELSE /\ execute_signal_trade(symbol, alert.signal_type, current_price,
                                                ExitSize(positions[symbol],
                                                         R(current_price[1])))
                        /\ engine' = AfterTrade(symbol, result')
                        /\ loop' = [loop EXCEPT !.todo = Tail(loop.todo),
                                                !.exits = @ \cup {symbol}]
    /\ UNCHANGED <<processed_signals, parked, threads, alert_manager, now, entry_log>>

\* time.sleep(30), the end of the cycle.
Sleep ==
    /\ loop.phase = "exit"
    /\ loop.todo = <<>>
    /\ now' = now + PollSleep
    /\ loop' = [NoLoop EXCEPT !.phase = "top"]
    /\ UNCHANGED <<ledger, saved_file, processed_signals, parked, result, threads,
                   engine, alert_manager, entry_log>>

NextMonitor ==
    \/ clear_processed_alerts
    \/ CreateAlert
    \/ clear_old_alerts
    \/ BeginCycle
    \/ EntryStep
    \/ BeginExit
    \/ ExitStep
    \/ Sleep

SpecMonitor == InitMonitor /\ [][NextMonitor]_vars

\* The monitoring loop in a run in which clear_processed_alerts() is not called.
NextUncleared ==
    \/ CreateAlert
    \/ clear_old_alerts
    \/ BeginCycle
    \/ EntryStep
    \/ BeginExit
    \/ ExitStep
    \/ Sleep

SpecUncleared == InitMonitor /\ [][NextUncleared]_vars

(***************************************************************************)
(* start_monitoring() and stop_monitoring() called from two dashboard      *)
(* threads on one engine, statement by statement, and the monitoring       *)
(* threads they start. No alert is active and no position is held, so a    *)
(* poll cycle of a thread changes nothing.                                 *)
(***************************************************************************)
Callers == {"caller_1", "caller_2"}

\* The Thread objects that the calls of start_monitoring() can create.
LoopThreads == {"thread_1", "thread_2", "thread_3"}

InitStart ==
    /\ starting_balance \in {R(b) : b \in StartingBalances}
    /\ cash_balance = starting_balance
    /\ positions = EmptyDict
    /\ trade_history = <<>>
    /\ total_trades = 0
    /\ winning_trades = 0
    /\ losing_trades = 0
    /\ portfolio_history = _update_portfolio_value(<<>>, cash_balance, positions)
    /\ saved_file = NoFile
    /\ processed_signals = <<>>
    /\ parked = NoPortfolio
    /\ result = NoResult
    /\ pc = [t \in Callers \cup LoopThreads |->
                IF t \in Callers THEN "idle" ELSE "none"]
    /\ frame = [t \in Threads |-> IdleFrame]
    /\ engine = NewEngine
    /\ alert_manager = NoAlerts
    /\ now = 0
    /\ loop = NoLoop
    /\ entry_log = EmptyDict

\* The caller is not inside a call of the engine.
Waiting(c) == pc[c] \in {"idle", "start_returned", "start_raised", "stop_raised"}

\* Thread.is_alive(): started and not ended.
is_alive(t) == pc[t] \in {"loop_59", "loop_68"}

\* What the steps of this section leave alone besides pc, engine and result.
Rest == <<ledger, saved_file, processed_signals, parked, frame, alert_manager, now,
          loop, entry_log>>

\* The dashboard calls start_monitoring().
CallStart(c) ==
    /\ Waiting(c)
    /\ pc' = [pc EXCEPT ![c] = "start_33"]
    /\ UNCHANGED <<engine, result, Rest>>

\* if self.monitoring_thread and self.monitoring_thread.is_alive(): return False
start_33(c) ==
    /\ pc[c] = "start_33"
    /\ IF engine.monitoring_thread # NoThread /\ is_alive(engine.monitoring_thread)
       THEN /\ pc' = [pc EXCEPT ![c] = "start_returned"]
            /\ result' = Failure("Monitoring thread already running")
       ELSE /\ pc' = [pc EXCEPT ![c] = "start_37"]
            /\ UNCHANGED result
    /\ UNCHANGED <<engine, Rest>>

\* self.enabled = True
start_37(c) ==
    /\ pc[c] = "start_37"
    /\ engine' = [engine EXCEPT !.enabled = TRUE]
    /\ pc' = [pc EXCEPT ![c] = "start_38"]
    /\ UNCHANGED <<result, Rest>>

\* self.stop_monitoring = False
start_38(c) ==
    /\ pc[c] = "start_38"
    /\ engine' = [engine EXCEPT !.stop_monitoring = FALSE]
    /\ pc' = [pc EXCEPT ![c] = "start_39"]
    /\ UNCHANGED <<result, Rest>>

\* self.monitoring_thread = threading.Thread(target=self._monitoring_loop, ...)
start_39(c) ==
    /\ pc[c] = "start_39"
    /\ \E t \in LoopThreads :
          /\ pc[t] = "none"
          /\ engine' = [engine EXCEPT !.monitoring_thread = t]
          /\ pc' = [pc EXCEPT ![c] = "start_40", ![t] = "new"]
    /\ UNCHANGED <<result, Rest>>

\* self.monitoring_thread.start(), on the thread the attribute holds now: a
\* thread that was started before raises RuntimeError; then return True.
start_40(c) ==
    /\ pc[c] = "start_40"
    /\ IF pc[engine.monitoring_thread] = "new"
       THEN /\ pc' = [pc EXCEPT ![c] = "start_returned",
                                ![engine.monitoring_thread] = "loop_59"]
            /\ result' = Success
       ELSE /\ pc' = [pc EXCEPT ![c] = "start_raised"]
            /\ result' = Raised("threads can only be started once")
    /\ UNCHANGED <<engine, Rest>>

\* The dashboard calls engine.stop_monitoring(): __init__ stored the flag
\* under the name of the method, so the attribute found is the bool and
\* calling it raises TypeError before any statement of the method runs.
stop_monitoring(c) ==
    /\ Waiting(c)
    /\ pc' = [pc EXCEPT ![c] = "stop_raised"]
    /\ result' = Raised("'bool' object is not callable")
    /\ UNCHANGED <<engine, Rest>>

\* while not self.stop_monitoring and self.enabled: a poll cycle, which finds
\* no alert and no position; else the thread ends.
loop_59(t) ==
    /\ pc[t] = "loop_59"
    /\ pc' = [pc EXCEPT ![t] = IF LoopRuns THEN "loop_68" ELSE "ended"]
    /\ UNCHANGED <<engine, result, Rest>>

\* time.sleep(30) is over.
loop_68(t) ==
    /\ pc[t] = "loop_68"
    /\ pc' = [pc EXCEPT ![t] = "loop_59"]
    /\ UNCHANGED <<engine, result, Rest>>

NextStart ==
    \/ \E c \in Callers : CallStart(c)
    \/ \E c \in Callers : start_33(c)
    \/ \E c \in Callers : start_37(c)
    \/ \E c \in Callers : start_38(c)
    \/ \E c \in Callers : start_39(c)
    \/ \E c \in Callers : start_40(c)
    \/ \E c \in Callers : stop_monitoring(c)
    \/ \E t \in LoopThreads : loop_59(t)
    \/ \E t \in LoopThreads : loop_68(t)

SpecStart == InitStart /\ [][NextStart]_vars

(***************************************************************************)
(* Properties of the ledger under sequential calls (Spec).                 *)
(***************************************************************************)
LastTrade == trade_history[Len(trade_history)]

PositivePrices == {p \in Prices : p > 0}
PositiveSizes == {z \in Sizes : z > 0}

\* The quantities a sell of a held symbol can be asked for: size / price of
\* execute_virtual_trade, or the held quantity the signal processor passes.
SellRequests(symbol) ==
    {RDiv(R(z), R(p)) : z \in PositiveSizes, p \in PositivePrices}
        \cup {positions[symbol].quantity}

\* C1: in every state reachable by sequential trade requests
\* (execute_virtual_trade calls and signals given to the signal processor)
\* the cash balance is not negative.
C1_CashNeverNegative == RGe(cash_balance, R(0))

\* C2: every symbol in the position map has a quantity above the closing
\* tolerance 0.0001.
C2_PositionsAboveEpsilon ==
    \A s \in DOMAIN positions : RGt(positions[s].quantity, Epsilon)

\* C3: with the monitor thread and another caller buying on one ledger, the
\* funds check and the debit of every buy are atomic: a buy that has passed
\* its check still finds its cost in the cash when it debits, and so the cash
\* balance is never negative, under every interleaving.
C3_ConcurrentBuysKeepCash ==
    /\ \A t \in Threads :
          pc[t] = "buy_86" => RGe(cash_balance, frame[t].total)
    /\ RGe(cash_balance, R(0))

\* The quantity of symbol s that sells have credited to the cash and not yet
\* taken out of the position.
RECURSIVE PendingSold(_, _)
PendingSold(s, todo) ==
    IF todo = {} THEN R(0)
    ELSE LET t == CHOOSE x \in todo : TRUE
         IN  RAdd(IF pc[t] = "sell_164" /\ frame[t].symbol = s
                  THEN frame[t].quantity ELSE R(0),
                  PendingSold(s, todo \ {t}))

\* C4: with the monitor's exit and another caller's sell of the same held
\* symbol running concurrently, the position is sold once: the quantity
\* credited to the cash is at most the quantity held, and a sell that has
\* returned failure has not changed the cash.
C4_ConcurrentSellsSellOnce ==
    /\ \A s \in AlertSymbols :
          RLe(PendingSold(s, Threads),
              IF s \in DOMAIN positions THEN positions[s].quantity ELSE R(0))
    /\ \A t \in Threads :
          (pc[t] = "idle" /\ frame[t].side = "SELL" /\ ~frame[t].result.success)
             => ~frame[t].credited

\* The execute_virtual_trade calls the claim names as failing: price <= 0,
\* size <= 0, a kind that is neither a buy nor a sell kind, a buy costing
\* more than the cash, a sell of a symbol not held.
C5_Fails(symbol, signal_type, price, size) ==
    LET p == IF price = NoPrice THEN 0 ELSE price[1]
    IN  \/ p <= 0
        \/ size <= 0
        \/ signal_type \notin BuySignals \cup SellSignals
        \/ /\ signal_type \in BuySignals
           /\ RGt(RMul(RDiv(R(size), R(p)), R(p)), cash_balance)
        \/ signal_type \in SellSignals /\ symbol \notin DOMAIN positions

\* C5: an execute_virtual_trade call with price <= 0, size <= 0, a kind that
\* is neither a buy nor a sell kind, a buy costing more than the cash, or a
\* sell of a symbol not held returns success = FALSE and leaves cash,
\* positions, history and counters as they were; a buy whose cost equals the
\* cash succeeds.
\* (For all inputs i: a step of execute_virtual_trade(i) with C5_Fails(i)
\* ends in a failure result with the ledger unchanged, and one with cost =
\* cash ends in success.  The formula is split on the result of the step, so
\* that the inputs are enumerated only where the step could contradict it.)
C5_FailedTradeChangesNothing ==
    [][LET NoFailingCall ==
               \A symbol \in Symbols, signal_type \in Signals,
                  price \in PriceInputs, size \in Sizes :
                    C5_Fails(symbol, signal_type, price, size) =>
                      ~execute_virtual_trade(symbol, signal_type, price, R(size))
           NoExactCall ==
               \A size \in PositiveSizes, p \in PositivePrices :
                  RMul(RDiv(R(size), R(p)), R(p)) = cash_balance =>
                    \A symbol \in Symbols, signal_type \in BuySignals :
                       ~execute_virtual_trade(symbol, signal_type, <<p>>, R(size))
       IN  IF result'.success
           THEN NoFailingCall
           ELSE (UNCHANGED ledger \/ NoFailingCall) /\ NoExactCall
      ]_vars

\* A buy that cost exactly the cash succeeded (the cash is now zero), and the
\* buy tried after it failed for lack of cash and changed nothing.
C5_Witness ==
    /\ result = Failure("Insufficient cash balance")
    /\ Len(trade_history) = 2
    /\ LastTrade.side = "BUY"
    /\ LastTrade.total_value = trade_history[1].cash_balance_after
    /\ cash_balance = R(0)

\* C6: a sell asked for at least the held quantity sells exactly the held
\* quantity: the cash grows by held * price, the recorded pnl is
\* (price - avg_price) * held, the position is removed, and winning_trades
\* grows when pnl > 0, losing_trades otherwise.
\* (A step of _execute_sell on a held symbol returns the record it appended:
\* the symbol and the price of the call are read from it, the quantity asked
\* for ranges over SellRequests.)
C6_SellAllClosesPosition ==
    [][(result'.success /\ result'.trade_record.side = "SELL"
          /\ result'.trade_record.symbol \in DOMAIN positions) =>
         LET symbol == result'.trade_record.symbol
             price == result'.trade_record.price
             held == positions[symbol].quantity
             pnl == RMul(RSub(price, positions[symbol].avg_price), held)
             rec == trade_history'[Len(trade_history')]
         IN  \A requested \in SellRequests(symbol) :
               (RGe(requested, held) /\ _execute_sell(symbol, requested, price)) =>
                 /\ cash_balance' = RAdd(cash_balance, RMul(held, price))
                 /\ Len(trade_history') = Len(trade_history) + 1
                 /\ rec.side = "SELL" /\ rec.symbol = symbol
                 /\ rec.quantity = held
                 /\ rec.pnl = pnl
                 /\ symbol \notin DOMAIN positions'
                 /\ IF pnl[1] > 0
                    THEN /\ winning_trades' = winning_trades + 1
                         /\ losing_trades' = losing_trades
                    ELSE /\ winning_trades' = winning_trades
                         /\ losing_trades' = losing_trades + 1
      ]_vars

\* 0.00005 units bought at 10,000,000, then a sell of 500 USD at 2,500,000
\* (0.0002 units asked for): the 0.00005 held are sold for 125, at a loss.
C6_Witness ==
    /\ Len(trade_history) = 2
    /\ trade_history[1].side = "BUY"
    /\ LastTrade.side = "SELL"
    /\ LastTrade.symbol = trade_history[1].symbol
    /\ LastTrade.quantity = trade_history[1].quantity
    /\ RLt(LastTrade.total_value, R(500))
    /\ RLt(LastTrade.pnl, R(0))
    /\ LastTrade.symbol \notin DOMAIN positions
    /\ losing_trades = 1 /\ winning_trades = 0

\* C7: a successful buy of quantity q at price p into an existing position
\* leaves quantity old + q and avg_price (old_total_cost + q*p) / (old + q);
\* the first buy of a symbol creates the position with avg_price p.
\* (The symbol, q and p of a successful buy are those of the BUY record the
\* step returns.)
C7_BuyWeightedAverage ==
    [][(result'.success /\ result'.trade_record.side = "BUY") =>
         LET symbol == result'.trade_record.symbol
             q == result'.trade_record.quantity
             price == result'.trade_record.price
         IN  _execute_buy(symbol, q, price) =>
               /\ symbol \in DOMAIN positions'
               /\ IF symbol \in DOMAIN positions
                  THEN LET old == positions[symbol]
                       IN  /\ positions'[symbol].quantity = RAdd(old.quantity, q)
                           /\ positions'[symbol].avg_price =
                                RDiv(RAdd(old.total_cost, RMul(q, price)),
                                     RAdd(old.quantity, q))
                  ELSE /\ positions'[symbol].quantity = q
                       /\ positions'[symbol].avg_price = price
      ]_vars

\* Two buys of one symbol at different prices are merged into one position.
C7_Witness ==
    /\ Len(trade_history) = 2
    /\ trade_history[1].side = "BUY" /\ trade_history[2].side = "BUY"
    /\ trade_history[1].symbol = trade_history[2].symbol
    /\ trade_history[1].price # trade_history[2].price
    /\ positions[trade_history[1].symbol].quantity =
          RAdd(trade_history[1].quantity, trade_history[2].quantity)
    /\ positions[trade_history[1].symbol].avg_price \notin
          {trade_history[1].price, trade_history[2].price}

\* C8: every stored position has total_cost = quantity * avg_price.
C8_TotalCostIsQuantityTimesAvg ==
    \A s \in DOMAIN positions :
        positions[s].total_cost = RMul(positions[s].quantity, positions[s].avg_price)

\* A position that two buys at different prices built and a sell then reduced.
C8_Witness ==
    /\ Len(trade_history) = 3
    /\ trade_history[1].side = "BUY" /\ trade_history[2].side = "BUY"
    /\ trade_history[1].price # trade_history[2].price
    /\ LastTrade.side = "SELL"
    /\ trade_history[1].symbol = LastTrade.symbol
    /\ trade_history[2].symbol = LastTrade.symbol
    /\ LastTrade.symbol \in DOMAIN positions
    /\ positions[LastTrade.symbol].quantity = LastTrade.remaining_position

\* C9: a position's avg_price changes only in a step that appends a BUY of
\* its symbol (so a sell that leaves the position open keeps its avg_price),
\* and a sell leaves the position of every other symbol as it was.
C9_SellKeepsAvgPrice ==
    [][LET n == Len(trade_history')
           traded == n = Len(trade_history) + 1
       IN  /\ \A s \in DOMAIN positions \cap DOMAIN positions' :
                 positions'[s].avg_price # positions[s].avg_price =>
                   /\ traded
                   /\ trade_history'[n].side = "BUY"
                   /\ trade_history'[n].symbol = s
           /\ (traded /\ trade_history'[n].side = "SELL") =>
                 \A s \in Symbols \ {trade_history'[n].symbol} :
                    /\ s \in DOMAIN positions <=> s \in DOMAIN positions'
                    /\ s \in DOMAIN positions => positions'[s] = positions[s]
      ]_vars

\* Two symbols are held and the last trade sold a part of one of them.
C9_Witness ==
    /\ Len(trade_history) = 3
    /\ LastTrade.side = "SELL"
    /\ RGt(LastTrade.remaining_position, R(0))
    /\ DOMAIN positions = Symbols
    /\ positions[LastTrade.symbol].avg_price = LastTrade.avg_cost
    /\ positions[LastTrade.symbol].quantity = LastTrade.remaining_position

BuyCount == Cardinality({i \in 1..Len(trade_history) : trade_history[i].side = "BUY"})

\* C10 as stated: total_trades = winning_trades + losing_trades in every
\* reachable state.
C10_TotalIsWinsPlusLosses == total_trades = winning_trades + losing_trades

\* C10 as amended: total_trades counts buys as well as sells, so
\* total_trades = winning_trades + losing_trades + the number of BUY records.
C10_TotalCountsBuysToo == total_trades = winning_trades + losing_trades + BuyCount

\* Two buys and a sell: three trades counted, one of them a win or a loss.
C10_Witness ==
    /\ total_trades = 3
    /\ winning_trades + losing_trades = 1
    /\ BuyCount = 2

\* C11: every successful buy or sell (a step that appends a trade record)
\* appends exactly one snapshot to portfolio_history, the oldest being
\* dropped beyond HistoryWindow, and the history never holds more than
\* HistoryWindow snapshots.
C11_SnapshotPerTrade ==
    [][/\ Len(portfolio_history') <= HistoryWindow
       /\ Len(trade_history') = Len(trade_history) + 1 =>
             portfolio_history' =
                _update_portfolio_value(portfolio_history, cash_balance', positions')
      ]_vars

(***************************************************************************)
(* Properties of the monitoring loop (SpecMonitor).                        *)
(***************************************************************************)
\* The step is a turn of the entry pass in which the ledger traded.
EntryTrade ==
    /\ loop.phase = "entry"
    /\ loop.todo # <<>>
    /\ trade_history' # trade_history

\* The seconds since the last automated trade of the symbol.
Elapsed(symbol) == now - engine.last_trade_times[symbol]

\* The four gate conditions that do not depend on time.
GateButCooldown(alert) ==
    /\ alert.confidence_score >= engine.min_confidence_threshold
    /\ alert.signal_type \in {"BUY", "STRONG_BUY"}
    /\ Cardinality(DOMAIN positions) < engine.max_positions
    /\ alert.symbol \notin DOMAIN positions

\* C12: the monitor executes an entry trade for an alert only if, when the
\* alert was evaluated, its confidence was at least the threshold, its kind
\* BUY or STRONG_BUY, fewer than max_positions positions were held, its symbol
\* was not held, and the last trade of its symbol, if any, was at least
\* cooldown_period seconds ago.
C12_EntryTradeOnlyThroughGate ==
    [][EntryTrade =>
          LET alert == Head(loop.todo)
          IN  /\ GateButCooldown(alert)
              /\ alert.symbol \in DOMAIN engine.last_trade_times =>
                    Elapsed(alert.symbol) >= engine.cooldown_period
      ]_vars

\* C12 as stated: the last trade of the symbol was strictly more than
\* cooldown_period seconds ago.
C12_EntryTradeStrictlyAfterCooldown ==
    [][EntryTrade =>
          LET alert == Head(loop.todo)
          IN  /\ GateButCooldown(alert)
              /\ alert.symbol \in DOMAIN engine.last_trade_times =>
                    Elapsed(alert.symbol) > engine.cooldown_period
      ]_vars

\* One alert was traded and one was turned down for its confidence.
C12_Witness ==
    /\ \E id \in DOMAIN entry_log : entry_log[id] = "traded"
    /\ \E id \in DOMAIN entry_log : entry_log[id] = "confidence"

\* C13: while positions are opened by the monitoring loop only and
\* max_positions is not lowered, the ledger never holds more than
\* max_positions positions.
C13_PositionsWithinCap == Cardinality(DOMAIN positions) <= engine.max_positions

\* With max_positions = 1 and one open position, a qualifying entry for
\* another symbol was turned down for the cap.
C13_Witness ==
    /\ engine.max_positions = 1
    /\ DOMAIN positions = {"SOL"}
    /\ "BONK_STRONG_BUY_1" \in DOMAIN entry_log
    /\ entry_log["BONK_STRONG_BUY_1"] = "max_positions"

\* The outcomes of an evaluation that a later cycle can find changed.
Transient == {"cooldown", "max_positions"}

\* The whole entry gate holds for the alert now.
GateHolds(alert) ==
    /\ GateButCooldown(alert)
    /\ alert.symbol \in DOMAIN engine.last_trade_times =>
          Elapsed(alert.symbol) >= engine.cooldown_period

\* C14: an entry alert that was skipped only for its symbol's cooldown or for
\* the position cap and is still active is taken up by a later entry pass
\* once the condition has cleared: when the pass comes to it while the gate
\* holds, it is evaluated again, and traded if a price is available.
C14_SkippedAlertTradedLater ==
    [][(/\ loop.phase = "entry"
        /\ loop.todo # <<>>
        /\ Head(loop.todo).id \in DOMAIN entry_log
        /\ entry_log[Head(loop.todo).id] \in Transient
        /\ GateHolds(Head(loop.todo)))
       => \/ trade_history' # trade_history
          \/ entry_log'[Head(loop.todo).id] = "no_price"
      ]_vars

\* C16: an entry alert whose last evaluation ended without a trade because
\* no price was available is evaluated again by the next entry pass that
\* finds it active.
C16_NoPriceRetriedNextCycle ==
    [][(/\ loop.phase = "entry"
        /\ loop.todo # <<>>
        /\ Head(loop.todo).id \in DOMAIN entry_log
        /\ entry_log[Head(loop.todo).id] = "no_price")
       => Head(loop.todo).id \in loop'.evaluated
      ]_vars

\* The step is a turn of the exit pass at a SELL or AVOID alert of a held
\* symbol.
ExitTurn ==
    /\ loop.phase = "exit"
    /\ loop.todo # <<>>
    /\ Head(loop.todo).signal_type \in {"SELL", "AVOID"}
    /\ Head(loop.todo).symbol \in DOMAIN positions

C20_FailureSkipsCycle ==
    [][loop.failed => (loop'.phase = "top" /\ now' = now + ErrorSleep)]_vars

(***************************************************************************)
(* Properties of the monitoring loop while clear_processed_alerts() is not *)
(* called (SpecUncleared).                                                 *)
(***************************************************************************)
\* C15: without clear_processed_alerts(), every alert id the entry pass saw is
\* in processed_alerts when the pass ends, whatever the gate or the trade
\* gave; the gate evaluates no id it has evaluated in an earlier cycle; and
\* no id gives a second entry trade.
C15_ProcessedOnce ==
    [][/\ (loop'.phase = "entry" /\ loop'.todo = <<>>) =>
             loop'.seen \subseteq engine'.processed_alerts
       /\ \A id \in loop'.evaluated \ loop.evaluated : id \notin DOMAIN entry_log
       /\ EntryTrade =>
             \/ Head(loop.todo).id \notin DOMAIN entry_log
             \/ entry_log[Head(loop.todo).id] # "traded"
      ]_vars

\* A later pass saw an alert that had been traded and evaluated nothing.
C15_Witness ==
    /\ loop.phase = "exit"
    /\ loop.evaluated = {}
    /\ \E id \in loop.seen : entry_log[id] = "traded"

(***************************************************************************)
(* Properties of start_monitoring() and stop_monitoring() (SpecStart).     *)
(***************************************************************************)
\* Caller c goes through a call of stop_monitoring() in this step.
StopCalled(c) ==
    /\ Waiting(c)
    /\ pc'[c] \in {"stop_returned", "stop_raised"}
    /\ pc'[c] # pc[c]

\* C18: a call of stop_monitoring() returns normally and leaves the engine
\* stopped, with the stop flag set and enabled cleared, so that the loop
\* condition is false and every monitoring thread ends at its next test.
C18_StopStopsLoop ==
    [][\A c \in Callers :
          StopCalled(c) =>
             /\ pc'[c] = "stop_returned"
             /\ result'.success
             /\ engine'.stop_monitoring
             /\ ~engine'.enabled
      ]_vars

\* C19: at most one monitoring thread is alive at any time, also when two
\* calls of start_monitoring() race.
C19_OneMonitoringThread ==
    Cardinality({t \in LoopThreads : is_alive(t)}) <= 1

(***************************************************************************)
(* Properties of the signal processor and of the saved file.               *)
(***************************************************************************)
\* The decision log grew by one entry, for this symbol and action.
Attempted(symbol, action) ==
    /\ Len(processed_signals') = Len(processed_signals) + 1
    /\ processed_signals'[Len(processed_signals')].symbol = symbol
    /\ processed_signals'[Len(processed_signals')].action = action

\* The step is process_new_signal for this symbol, kind and confidence, at
\* some price.  The first conjunct follows from the second and is there to
\* settle most steps without evaluating a trade.
ProcessorStep(symbol, signal_type, confidence) ==
    /\ IF _make_trade_decision(symbol, signal_type, confidence).should_trade
       THEN /\ Len(processed_signals') = Len(processed_signals) + 1
            /\ processed_signals'[Len(processed_signals')].symbol = symbol
       ELSE /\ processed_signals' = processed_signals
            /\ "action" \in DOMAIN result'
    /\ \E price \in PriceInputs :
          process_new_signal(symbol, signal_type, confidence, price)

Reloaded == load_portfolio_state \/ CreateVirtualPortfolio

C23_FailedLoadFallsBack ==
    [][(~saved_file.exists \/ saved_file = Unparsable)
          => /\ CreateVirtualPortfolio
                   => /\ result'.success
                      /\ starting_balance' \in {R(b) : b \in StartingBalances}
                      /\ cash_balance' = starting_balance'
                      /\ positions' = EmptyDict
                      /\ trade_history' = <<>>
                      /\ total_trades' = 0
                      /\ winning_trades' = 0
                      /\ losing_trades' = 0
             /\ load_portfolio_state
                   => ~result'.success /\ UNCHANGED ledger]_vars

C23_Witness ==
    /\ "call" \in DOMAIN result
    /\ result.call = "create_virtual_portfolio"
    /\ saved_file = Unparsable
    /\ cash_balance = starting_balance
    /\ trade_history = <<>>

C25_ProcessorRejectsInvalidPrice ==
    [][\A symbol \in Symbols, signal_type \in SellSignals,
          confidence \in Confidences, p \in {x \in Prices : x <= 0} :
          (/\ confidence >= min_confidence_sell
           /\ _has_position(symbol)
           /\ process_new_signal(symbol, signal_type, confidence, <<p>>))
          => /\ result' = Failure("Invalid price")
             /\ UNCHANGED ledger
             /\ \A i \in DOMAIN trade_history' :
                   RGt(trade_history'[i].price, R(0))
      ]_vars

\* The step is a turn of the entry pass or of the exit pass in which the
\* ledger traded.
AutomatedTrade ==
    /\ loop.phase \in {"entry", "exit"}
    /\ loop.todo # <<>>
    /\ Len(trade_history') = Len(trade_history) + 1

\* C26: two trades of the monitor in one symbol, of whatever sides, are at
\* least cooldown_period seconds apart: a position that the entry pass opened
\* is not closed by the exit pass of the same cycle, nor within the cooldown.
C26_TradesOfSymbolCooldownApart ==
    [][AutomatedTrade =>
          LET symbol == trade_history'[Len(trade_history')].symbol
          IN  symbol \in DOMAIN engine.last_trade_times =>
                Elapsed(symbol) >= engine.cooldown_period
      ]_vars

\* C28: from the entry gate to the statement of the monitor's buy that looks
\* the symbol up in positions, whatever another caller does on the ledger in
\* between, the gate holds: the symbol is not held and fewer than
\* max_positions positions are; so the monitor never adds to a position, and
\* the number of positions never exceeds max_positions.
C28_GateHoldsAtMonitorBuy ==
    /\ (/\ pc["monitor"] \in {"buy_82", "buy_86", "buy_86_store", "buy_89"}
         /\ frame["monitor"].side = "BUY")
        => /\ frame["monitor"].symbol \notin DOMAIN positions
           /\ Cardinality(DOMAIN positions) < max_positions
    /\ pc["monitor"] \notin {"buy_91", "buy_97"}
    /\ Cardinality(DOMAIN positions) <= max_positions

\* The trades that the file holds.
SavedTrades(file) == IF file.exists THEN file.trade_history ELSE <<>>

\* C27: the monitor and the signal processor trade on one ledger object, so
\* that whatever the order of their trades and of the saves these trigger, a
\* trade that the file holds is still in the file after every later save.
C27_SavedTradesStaySaved ==
    [][\A i \in DOMAIN SavedTrades(saved_file) :
          \E j \in DOMAIN SavedTrades(saved_file') :
             SavedTrades(saved_file')[j] = SavedTrades(saved_file)[i]
      ]_vars

\* The places of the SELL records in the trade history.
SellRecords == {i \in DOMAIN trade_history : trade_history[i].side = "SELL"}

\* C29: after any sequence of trades on a fresh ledger, total_trades is the
\* length of the trade history, winning_trades + losing_trades is the number
\* of SELL records, and losing_trades counts the SELL records whose pnl is
\* zero or less, so that a sell with pnl 0 is a losing trade.
C29_CountersMatchHistory ==
    /\ total_trades = Len(trade_history)
    /\ winning_trades + losing_trades = Cardinality(SellRecords)
    /\ losing_trades =
          Cardinality({i \in SellRecords : RLe(trade_history[i].pnl, R(0))})
    /\ winning_trades =
          Cardinality({i \in SellRecords : RGt(trade_history[i].pnl, R(0))})

\* A buy, a sell at the price of the buy (pnl 0) and a buy again: one losing
\* trade and no winning one among three trades.
C29_Witness ==
    /\ Len(trade_history) = 3
    /\ trade_history[2].side = "SELL"
    /\ trade_history[2].pnl = R(0)
    /\ trade_history[3].side = "BUY"
    /\ losing_trades = 1
    /\ winning_trades = 0
    /\ total_trades = 3

\* The sum of total_cost over the positions of the given symbols.
RECURSIVE OpenCost(_)
OpenCost(symbols) ==
    IF symbols = {} THEN R(0)
    ELSE LET s == CHOOSE x \in symbols : TRUE
         IN  RAdd(positions[s].total_cost, OpenCost(symbols \ {s}))

\* The sum of pnl over the SELL records among the first n trades.
RECURSIVE RealisedPnl(_)
RealisedPnl(n) ==
    IF n = 0 THEN R(0)
    ELSE RAdd(IF trade_history[n].side = "SELL" THEN trade_history[n].pnl ELSE R(0),
              RealisedPnl(n - 1))

\* C30: after any sequence of buys and sells on a fresh ledger, the cash plus
\* the total_cost of the open positions equals the starting balance plus the
\* pnl of the SELL records, also after a sell that left at most the closing
\* tolerance and removed the position.
C30_ValueConserved ==
    RCmp(RAdd(cash_balance, OpenCost(DOMAIN positions)),
         RAdd(starting_balance, RealisedPnl(Len(trade_history)))) = 0

====
